---- MODULE Spec2Model ----
(***************************************************************************)
(* A model of PersonalFinanceManager (src/finance_manager.py): the three   *)
(* SQLite relations users / transactions / budgets, the current_user       *)
(* session field, the wall clock read by datetime.now(), the backup file   *)
(* on disk and the SQLite connections an operation leaves open.            *)
(*                                                                         *)
(* Every public method is one action.  The tables hold the COMMITTED       *)
(* content of finance.db, which is what every later connection reads.      *)
(* Text that the code compares (dates) is a sequence of character codes,   *)
(* compared as SQLite's BINARY collation compares it.                      *)
(***************************************************************************)
EXTENDS Integers, Sequences, FiniteSets, TLC

\* ------------------------------------------------------------------ bounds
\* AUTOINCREMENT counters are unbounded in the program; the model stops
\* inserting once a counter reaches its cap.
MaxTxId == 2
MaxBudgetId == 2
MaxUserId == 2
\* number of days the clock may advance past StartDate
MaxTicks == 2
\* connections left open by restore_data that the collector has not yet closed
MaxLeaked == 2

\* ------------------------------------------------------------------ text
\* character codes of the characters strftime emits
ChDash == 45
ChSpace == 32
ChColon == 58
ChZero == 48

Min(a, b) == IF a <= b THEN a ELSE b

\* memcmp order of two texts (SQLite BINARY collation): the first differing
\* character decides; when one is a prefix of the other the shorter is less.
StrLE(a, b) ==
    LET n == Min(Len(a), Len(b))
        diff == {i \in 1..n : a[i] # b[i]}
    IN  IF diff = {}
        THEN Len(a) <= Len(b)
        ELSE LET k == CHOOSE i \in diff : \A j \in diff : i <= j
             IN  a[k] < b[k]

Fmt2(n) == <<ChZero + (n \div 10), ChZero + (n % 10)>>

Fmt4(n) == <<ChZero + (n \div 1000), ChZero + ((n \div 100) % 10),
             ChZero + ((n \div 10) % 10), ChZero + (n % 10)>>

\* strftime("%Y-%m-%d") of a clock value [year, month, day, hour, minute, second]
StrftimeYmd(t) == Fmt4(t.year) \o <<ChDash>> \o Fmt2(t.month) \o <<ChDash>> \o Fmt2(t.day)

\* strftime("%Y-%m-%d %H:%M:%S")
StrftimeYmdHMS(t) ==
    StrftimeYmd(t) \o <<ChSpace>> \o Fmt2(t.hour) \o <<ChColon>> \o Fmt2(t.minute)
                   \o <<ChColon>> \o Fmt2(t.second)

\* now.replace(day=1) and now.replace(month=1, day=1)
ReplaceDay1(t) == [t EXCEPT !.day = 1]
ReplaceMonth1Day1(t) == [t EXCEPT !.month = 1, !.day = 1]

\* ------------------------------------------------------------------ clock
IsLeap(y) == (y % 4 = 0 /\ y % 100 # 0) \/ y % 400 = 0

DaysInMonth(y, m) ==
    IF m = 2 THEN (IF IsLeap(y) THEN 29 ELSE 28)
    ELSE IF m \in {4, 6, 9, 11} THEN 30 ELSE 31

NextDay(t) ==
    IF t.day < DaysInMonth(t.year, t.month) THEN [t EXCEPT !.day = t.day + 1]
    ELSE IF t.month < 12 THEN [t EXCEPT !.day = 1, !.month = t.month + 1]
    ELSE [t EXCEPT !.day = 1, !.month = 1, !.year = t.year + 1]

\* The first instant of the modelled run: two days before the end of a month, so
\* that the clock passes a day within the month and then enters the next month.
StartDate == [year |-> 2026, month |-> 1, day |-> 30, hour |-> 9, minute |-> 30, second |-> 0]

\* ------------------------------------------------------------------ inputs
\* sha256(password).hexdigest(): a deterministic one-way digest; distinct
\* passwords of the input set have distinct digests.
hash_password(password) == <<"sha256", password>>

\* ------------------------------------------------------------------ environments
\* The arguments the caller passes are drawn from small sets.  A run takes place
\* in one environment, fixed when the run starts: the users that exist outside
\* the program, what they type, the files on disk and how far the clock moves.
\* The environments are explored side by side; each exercises every operation
\* it lists with valid and invalid arguments.

NoArgs == [f \in {} |-> 0]

\* (username, password) pairs typed at registration and at login
OneUser == { <<"alice", "pw1">> }
TwoUsers == { <<"alice", "pw1">>, <<"bob", "pw2">> }
BadRegisters == { <<"", "pw1">>, <<"alice", "">> }
BadLogins == { <<"alice", "pw2">>, <<"carol", "pw1">> }

\* (transaction_type, amount, category, description) of add_transaction
BadAdds == { <<"transfer", 40, "food", "">>, <<"expense", 0, "food", "">>,
             <<"income", 0 - 5, "rent", "">> }

\* update_transaction's optional arguments: a field is in the record's domain
\* exactly when the argument is not None.
BadUpdates == { [amount |-> 0], [amount |-> 0 - 5, category |-> "rent"], NoArgs }

Categories == {"food", "rent"}

\* BINARY collation order of the category texts of the input set
CategoryRank(c) == IF c = "food" THEN 1 ELSE IF c = "rent" THEN 2 ELSE 0

\* get_transactions' optional filters: a field is in the record's domain exactly
\* when the argument is given; a given empty text is falsy, as None is.
DateRangeQuery ==
    [start_date |-> StrftimeYmd(StartDate), end_date |-> StrftimeYmd(NextDay(StartDate))]

BackupFile == "backup.json"

\* an environment in which nothing is typed; the others override its fields
QuietEnv ==
    [name |-> "quiet", register |-> OneUser, login |-> OneUser,
     adds |-> {}, updates |-> {}, deletes |-> {}, queries |-> {}, periods |-> {},
     budgets |-> {}, checks |-> {}, lists |-> FALSE, backups |-> FALSE, files |-> {},
     restarts |-> FALSE,
     maxTicks |-> 0, maxTxId |-> MaxTxId, maxBudgetId |-> MaxBudgetId,
     maxUserId |-> MaxUserId]

\* budgets and their checks over the days of a month and into the next
BudgetEnv ==
    [QuietEnv EXCEPT
        !.name = "budget",
        !.adds = { <<"expense", 60, "food", "lunch">>, <<"expense", 50, "food", "">>,
                   <<"income", 40, "food", "">> },
        !.budgets = { <<"food", 100>>, <<"food", 50>>, <<"food", 0>> },
        !.checks = Categories,
        !.lists = TRUE,
        !.maxTicks = MaxTicks]

\* reports over a month boundary
ReportEnv ==
    [QuietEnv EXCEPT
        !.name = "report",
        !.adds = { <<"expense", 60, "food", "lunch">>, <<"expense", 50, "rent", "">>,
                   <<"income", 40, "food", "">> },
        !.deletes = 1..MaxTxId,
        !.queries = { NoArgs, DateRangeQuery },
        !.periods = { "monthly", "yearly", "weekly" },
        !.maxTicks = MaxTicks]

\* two users on one ledger, with valid and invalid arguments
LedgerEnv ==
    [QuietEnv EXCEPT
        !.name = "ledger",
        !.register = TwoUsers \cup BadRegisters,
        !.login = TwoUsers \cup BadLogins,
        !.adds = { <<"expense", 60, "food", "lunch">>, <<"income", 40, "rent", "">> }
                 \cup BadAdds,
        !.updates = { [amount |-> 40], [category |-> "rent", description |-> ""] }
                    \cup BadUpdates,
        !.deletes = 1..MaxTxId,
        !.queries = { NoArgs, [category |-> "", transaction_type |-> "expense"] }]

\* two users, their budgets and each other's backup documents
SharedEnv ==
    [QuietEnv EXCEPT
        !.name = "shared",
        !.register = TwoUsers,
        !.login = TwoUsers,
        !.adds = { <<"expense", 60, "food", "lunch">> },
        !.queries = { NoArgs },
        !.budgets = { <<"food", 100>> },
        !.backups = TRUE,
        !.files = { BackupFile }]

\* backups and the documents restored from disk
BackupEnv ==
    [QuietEnv EXCEPT
        !.name = "backup",
        !.adds = { <<"expense", 60, "food", "lunch">>, <<"income", 40, "rent", "">> },
        !.deletes = 1..MaxTxId,
        !.budgets = { <<"food", 100>> },
        !.backups = TRUE,
        !.files = { BackupFile, "negative.json", "badkind.json", "nofield.json",
                    "dupbudget.json", "missing.json" }]

\* a backup taken in one month and restored in the next
RestampEnv ==
    [QuietEnv EXCEPT
        !.name = "restamp",
        !.budgets = { <<"food", 100>>, <<"rent", 50>> },
        !.lists = TRUE,
        !.backups = TRUE,
        !.files = { BackupFile },
        !.maxTicks = MaxTicks]

\* the program is run again on the database an earlier run has filled: every
\* operation is tried before and after logging in
SessionEnv ==
    [QuietEnv EXCEPT
        !.name = "session",
        !.login = OneUser \cup BadLogins,
        !.adds = { <<"expense", 60, "food", "lunch">> },
        !.updates = { [amount |-> 40] },
        !.deletes = { 1 },
        !.queries = { NoArgs },
        !.periods = { "monthly" },
        !.budgets = { <<"food", 100>> },
        !.lists = TRUE,
        !.backups = TRUE,
        !.files = { BackupFile },
        !.restarts = TRUE]

Environments ==
    { BudgetEnv, ReportEnv, LedgerEnv, SharedEnv, BackupEnv, RestampEnv, SessionEnv }

\* ------------------------------------------------------------------ files
\* Documents that exist on disk besides the one backup_data writes.  Each is
\* what json.load returns: a mapping whose keys are the fields present.
OldDate == StrftimeYmdHMS(StartDate)

NegativeDoc ==
    [user_id |-> 1, backup_date |-> OldDate,
     transactions |-> << [id |-> 1, type |-> "expense", amount |-> 0 - 5, category |-> "food",
                          description |-> "", date |-> OldDate] >>,
     budgets |-> << >>]

BadKindDoc ==
    [user_id |-> 1, backup_date |-> OldDate,
     transactions |-> << [id |-> 1, type |-> "transfer", amount |-> 40, category |-> "food",
                          description |-> "", date |-> OldDate] >>,
     budgets |-> << >>]

MissingFieldDoc ==
    [user_id |-> 1, backup_date |-> OldDate,
     transactions |-> << [id |-> 1, type |-> "income", amount |-> 40, category |-> "food",
                          date |-> OldDate] >>,
     budgets |-> << >>]

DuplicateBudgetDoc ==
    [user_id |-> 1, backup_date |-> OldDate,
     transactions |-> << >>,
     budgets |-> << [category |-> "food", amount |-> 50], [category |-> "food", amount |-> 100] >>]

\* the content of "no such file"
NoFile == [missing |-> TRUE]

VARIABLES
    env,            \* the name of the environment of the run (never changes)
    users,          \* rows of table users: [id, username, password]
    userSeq,        \* sqlite_sequence of users (AUTOINCREMENT)
    transactions,   \* rows of table transactions
    txSeq,          \* sqlite_sequence of transactions
    budgets,        \* rows of table budgets
    budgetSeq,      \* sqlite_sequence of budgets
    current_user,   \* self.current_user; 0 stands for None
    now,            \* what datetime.datetime.now() returns
    backupDoc,      \* content of the file backup_data wrote, or NoFile
    openConns,      \* connections opened and not closed
    writeLocked,    \* an open connection holds an uncommitted write transaction
    last            \* the last call: operation, arguments, outcome, printed warning, result

vars == <<env, users, userSeq, transactions, txSeq, budgets, budgetSeq, current_user, now,
          backupDoc, openConns, writeLocked, last>>

\* json.load(open(backup_file)) for each file name
ReadFile(name) ==
    CASE name = BackupFile -> backupDoc
      [] name = "negative.json" -> NegativeDoc
      [] name = "badkind.json" -> BadKindDoc
      [] name = "nofield.json" -> MissingFieldDoc
      [] name = "dupbudget.json" -> DuplicateBudgetDoc
      [] OTHER -> NoFile

\* ------------------------------------------------------------------ SQL
\* a Python value is truthy; for the texts and ids of the model: not empty, not 0
Given(args, f) == f \in DOMAIN args

\* CHECK(type IN ('income', 'expense'))
TypeCheck(type) == type \in {"income", "expense"}

\* ORDER BY date DESC; rows with equal dates come in rowid order
RowBefore(a, b) ==
    \/ ~StrLE(a.date, b.date)
    \/ a.date = b.date /\ a.id < b.id

RECURSIVE OrderByDateDesc(_)
OrderByDateDesc(S) ==
    IF S = {} THEN << >>
    ELSE LET first == CHOOSE r \in S : \A q \in S \ {r} : RowBefore(r, q)
         IN  <<first>> \o OrderByDateDesc(S \ {first})

\* (variant: the dict takes its category from the description column)
RowDictShifted(r) ==
    [id |-> r.id, type |-> r.type, amount |-> r.amount, category |-> r.description,
     description |-> r.description, date |-> r.date]

\* the dict get_transactions builds from a row (user_id is not selected)
RowDict(r) ==
    [id |-> r.id, type |-> r.type, amount |-> r.amount, category |-> r.category,
     description |-> r.description, date |-> r.date]

\* the WHERE clause get_transactions builds: a filter is applied when truthy
Matches(r, user, args) ==
    /\ r.user_id = user
    /\ (Given(args, "start_date") /\ args.start_date # << >>) => StrLE(args.start_date, r.date)
    /\ (Given(args, "end_date") /\ args.end_date # << >>) => StrLE(r.date, args.end_date)
    /\ (Given(args, "category") /\ args.category # "") => r.category = args.category
    /\ (Given(args, "transaction_type") /\ args.transaction_type # "") =>
           r.type = args.transaction_type

\* get_transactions for a logged-in user over the committed rows txs: the list of
\* dicts returned
SelectTransactions(txs, user, args) ==
    LET rows == OrderByDateDesc({r \in txs : Matches(r, user, args)})
    IN  [i \in 1..Len(rows) |-> RowDict(rows[i])]

RECURSIVE SumAmounts(_)
\* sum(trans['amount'] for trans in list)
SumAmounts(list) ==
    IF list = << >> THEN 0 ELSE Head(list).amount + SumAmounts(Tail(list))

\* ------------------------------------------------------------------ operations
\* Each operation is an operator from the current state and the arguments to
\* the outcome: what is printed/returned and the committed tables afterwards.
\* Outcome names follow the failure taxonomy: the message printed tells them apart.

\* register_user
register_user(username, password) ==
    IF username = "" \/ password = ""
    THEN [outcome |-> "InvalidInput", users |-> users, userSeq |-> userSeq]
    ELSE IF writeLocked
    THEN \* sqlite3.OperationalError is not an IntegrityError: it propagates
         [outcome |-> "Raised", users |-> users, userSeq |-> userSeq]
    ELSE IF \E u \in users : u.username = username
    THEN [outcome |-> "DuplicateUser", users |-> users, userSeq |-> userSeq]
    ELSE [outcome |-> "Ok",
          users |-> users \cup {[id |-> userSeq + 1, username |-> username,
                                 password |-> hash_password(password)]},
          userSeq |-> userSeq + 1]

\* a login that looks the username up and never compares the digest
loginByUsername(username, password) ==
    LET found == {u \in users : u.username = username}
    IN  IF found # {}
        THEN [outcome |-> "Ok", current_user |-> (CHOOSE u \in found : TRUE).id]
        ELSE [outcome |-> "InvalidCredentials", current_user |-> current_user]

\* login: the id of the row matching username and digest, if any
login(username, password) ==
    LET found == {u \in users : u.username = username /\ u.password = hash_password(password)}
    IN  IF found # {}
        THEN [outcome |-> "Ok", current_user |-> (CHOOSE u \in found : TRUE).id]
        ELSE [outcome |-> "InvalidCredentials", current_user |-> current_user]

\* check_budget(category, amount) reading the committed transactions txs;
\* amount is not used by the code
check_budget(txs, category) ==
    LET rows == {b \in budgets : b.user_id = current_user /\ b.category = category
                                 /\ b.month = now.month /\ b.year = now.year}
        none == [exceeded |-> FALSE, budget |-> 0, spent |-> 0]
    IN  IF current_user = 0 THEN none
        ELSE IF rows = {} THEN none
        ELSE LET budget_amount == (CHOOSE b \in rows : TRUE).amount
                 start_date == StrftimeYmd(ReplaceDay1(now))
                 end_date == StrftimeYmd(now)
                 expenses == SelectTransactions(txs, current_user,
                                 [start_date |-> start_date, end_date |-> end_date,
                                  category |-> category, transaction_type |-> "expense"])
                 total_spent == SumAmounts(expenses)
             IN  [exceeded |-> total_spent > budget_amount, budget |-> budget_amount,
                  spent |-> total_spent]

\* add_transaction
add_transaction(transaction_type, amount, category, description) ==
    LET fail(o) == [outcome |-> o, transactions |-> transactions, txSeq |-> txSeq,
                    warned |-> FALSE]
    IN  IF current_user = 0 THEN fail("NotAuthenticated")
        ELSE IF transaction_type \notin {"income", "expense"} THEN fail("InvalidKind")
        ELSE IF amount <= 0 THEN fail("InvalidAmount")
        ELSE IF writeLocked THEN fail("StorageFailure")
        ELSE LET row == [id |-> txSeq + 1, user_id |-> current_user,
                         type |-> transaction_type, amount |-> amount,
                         category |-> category, description |-> description,
                         date |-> StrftimeYmdHMS(now)]
                 txs == transactions \cup {row}
             IN  [outcome |-> "Ok", transactions |-> txs, txSeq |-> txSeq + 1,
                  warned |-> check_budget(txs, category).exceeded]

\* (variant: the statement sets all three columns, an absent argument as empty)
UpdateRowAllColumns(r, transaction_id, user, args) ==
    IF r.id = transaction_id /\ r.user_id = user
    THEN [r EXCEPT !.amount = IF Given(args, "amount") THEN args.amount ELSE @,
                   !.category = IF Given(args, "category") THEN args.category ELSE @,
                   !.description = IF Given(args, "description") THEN args.description ELSE ""]
    ELSE r

\* UPDATE transactions SET <given fields> WHERE id = ? AND user_id = ?, on one row
UpdateRow(r, transaction_id, user, args) ==
    IF r.id = transaction_id /\ r.user_id = user
    THEN [r EXCEPT !.amount = IF Given(args, "amount") THEN args.amount ELSE @,
                   !.category = IF Given(args, "category") THEN args.category ELSE @,
                   !.description = IF Given(args, "description") THEN args.description ELSE @]
    ELSE r

\* update_transaction
update_transaction(transaction_id, args) ==
    LET fail(o) == [outcome |-> o, transactions |-> transactions]
        rowcount == Cardinality({r \in transactions :
                                    r.id = transaction_id /\ r.user_id = current_user})
    IN  IF current_user = 0 THEN fail("NotAuthenticated")
        ELSE IF Given(args, "amount") /\ args.amount <= 0 THEN fail("InvalidAmount")
        ELSE IF DOMAIN args \cap {"amount", "category", "description"} = {}
        THEN fail("NoOpUpdate")
        ELSE IF writeLocked THEN fail("StorageFailure")
        ELSE IF rowcount = 0 THEN fail("NotFound")
        ELSE [outcome |-> "Ok",
              transactions |-> {UpdateRow(r, transaction_id, current_user, args) :
                                   r \in transactions}]

\* (variant: the statement lacks "AND user_id = ?")
DeletedRowsAnyOwner(transaction_id, user) ==
    {r \in transactions : r.id = transaction_id}

\* DELETE FROM transactions WHERE id = ? AND user_id = ?: the rows it removes
DeletedRows(transaction_id, user) ==
    {r \in transactions : r.id = transaction_id /\ r.user_id = user}

\* delete_transaction
delete_transaction(transaction_id) ==
    LET fail(o) == [outcome |-> o, transactions |-> transactions]
        gone == DeletedRows(transaction_id, current_user)
    IN  IF current_user = 0 THEN fail("NotAuthenticated")
        ELSE IF writeLocked THEN fail("StorageFailure")
        ELSE IF Cardinality(gone) = 0 THEN fail("NotFound")
        ELSE [outcome |-> "Ok", transactions |-> transactions \ gone]

\* get_transactions
get_transactions(args) ==
    IF current_user = 0
    THEN [outcome |-> "NotAuthenticated", result |-> << >>]
    ELSE [outcome |-> "Ok", result |-> SelectTransactions(transactions, current_user, args)]

\* the category -> summed expense mapping generate_report accumulates
CategoryExpenses(list) ==
    LET exp == SelectSeq(list, LAMBDA t : t.type # "income")
        cats == {exp[i].category : i \in 1..Len(exp)}
    IN  [c \in cats |-> SumAmounts(SelectSeq(exp, LAMBDA t : t.category = c))]

\* generate_report
generate_report(period) ==
    IF current_user = 0 THEN [outcome |-> "NotAuthenticated", result |-> [empty |-> TRUE]]
    ELSE IF period \notin {"monthly", "yearly"}
    THEN [outcome |-> "InvalidPeriod", result |-> [empty |-> TRUE]]
    ELSE LET start_date == IF period = "monthly" THEN StrftimeYmd(ReplaceDay1(now))
                           ELSE StrftimeYmd(ReplaceMonth1Day1(now))
             end_date == StrftimeYmd(now)
             list == get_transactions([start_date |-> start_date,
                                       end_date |-> end_date]).result
             total_income == SumAmounts(SelectSeq(list, LAMBDA t : t.type = "income"))
             total_expenses == SumAmounts(SelectSeq(list, LAMBDA t : t.type # "income"))
         IN  [outcome |-> "Ok",
              result |-> [period |-> period, start_date |-> start_date,
                          end_date |-> end_date, total_income |-> total_income,
                          total_expenses |-> total_expenses,
                          savings |-> total_income - total_expenses,
                          category_expenses |-> CategoryExpenses(list)]]

\* set_budget: INSERT OR REPLACE removes the row with the same
\* (user_id, category, month, year) and inserts a new one
set_budget(category, amount) ==
    LET fail(o) == [outcome |-> o, budgets |-> budgets, budgetSeq |-> budgetSeq]
        clash == {b \in budgets : b.user_id = current_user /\ b.category = category
                                  /\ b.month = now.month /\ b.year = now.year}
    IN  IF current_user = 0 THEN fail("NotAuthenticated")
        ELSE IF amount <= 0 THEN fail("InvalidAmount")
        ELSE IF writeLocked THEN fail("StorageFailure")
        ELSE [outcome |-> "Ok",
              budgets |-> (budgets \ clash) \cup
                          {[id |-> budgetSeq + 1, user_id |-> current_user,
                            category |-> category, amount |-> amount,
                            month |-> now.month, year |-> now.year]},
              budgetSeq |-> budgetSeq + 1]

\* the rows of the unique index (user_id, category, month, year) come by category
RECURSIVE OrderByCategory(_)
OrderByCategory(S) ==
    IF S = {} THEN << >>
    ELSE LET first == CHOOSE b \in S :
                          \A q \in S \ {b} : CategoryRank(b.category) <= CategoryRank(q.category)
         IN  <<first>> \o OrderByCategory(S \ {first})

\* get_budgets
get_budgets ==
    IF current_user = 0 THEN [outcome |-> "NotAuthenticated", result |-> << >>]
    ELSE LET rows == OrderByCategory({b \in budgets : b.user_id = current_user
                                        /\ b.month = now.month /\ b.year = now.year})
         IN  [outcome |-> "Ok",
              result |-> [i \in 1..Len(rows) |->
                            [category |-> rows[i].category, amount |-> rows[i].amount]]]

\* backup_data: the document json.dump writes
backup_data ==
    IF current_user = 0 THEN [outcome |-> "NotAuthenticated", doc |-> backupDoc]
    ELSE [outcome |-> "Ok",
          doc |-> [user_id |-> current_user, backup_date |-> StrftimeYmdHMS(now),
                   transactions |-> get_transactions(NoArgs).result,
                   budgets |-> get_budgets.result]]

\* the INSERTs of restore_data succeed on every record of the document: the
\* fields read are present and the CHECK constraint on type holds
TransactionsInsertable(list) ==
    \A i \in 1..Len(list) :
        /\ {"type", "amount", "category", "description", "date"} \subseteq DOMAIN list[i]
        /\ TypeCheck(list[i].type)

\* ... and no two budget records collide on UNIQUE(user_id, category, month, year)
BudgetsInsertable(list) ==
    /\ \A i \in 1..Len(list) : {"category", "amount"} \subseteq DOMAIN list[i]
    /\ \A i, j \in 1..Len(list) : list[i].category = list[j].category => i = j

\* DELETE FROM ... WHERE user_id = ? for the current user
Wiped(rows) == {r \in rows : r.user_id # current_user}

\* a store in which the statements of an open transaction are seen at once
DirtyRead(committed, pending) == pending

\* what the table holds for every other connection while a transaction that is
\* never committed is open, and for all once its connection is closed: pending
\* is the table as that transaction left it
Uncommitted(committed, pending) == committed

\* restore_data.  leaked: connections the call opened and did not close;
\* locks: the connection left open holds the uncommitted DELETEs and INSERTs.
restore_data(backup_file) ==
    LET doc == ReadFile(backup_file)
        fail(o, leaked, locks) ==
            [outcome |-> o, transactions |-> transactions, txSeq |-> txSeq,
             budgets |-> budgets, budgetSeq |-> budgetSeq,
             leaked |-> leaked, locks |-> locks]
        \* an INSERT raises after the DELETEs: no commit, no rollback, no close
        abort(o) ==
            [outcome |-> o, txSeq |-> txSeq, budgetSeq |-> budgetSeq,
             transactions |-> Uncommitted(transactions, Wiped(transactions)),
             budgets |-> Uncommitted(budgets, Wiped(budgets)),
             leaked |-> 1, locks |-> TRUE]
    IN  IF current_user = 0 THEN fail("NotAuthenticated", 0, FALSE)
        ELSE IF "user_id" \notin DOMAIN doc THEN fail("StorageFailure", 0, FALSE)
        ELSE IF doc.user_id # current_user THEN fail("OwnershipMismatch", 0, FALSE)
        ELSE IF writeLocked THEN fail("StorageFailure", 1, FALSE)
        ELSE IF ~({"transactions", "budgets"} \subseteq DOMAIN doc)
        THEN abort("StorageFailure")
        ELSE IF ~(TransactionsInsertable(doc.transactions) /\ BudgetsInsertable(doc.budgets))
        THEN abort("StorageFailure")
        ELSE LET tl == doc.transactions
                 bl == doc.budgets
             IN  [outcome |-> "Ok",
                  transactions |->
                      Wiped(transactions) \cup
                      {[id |-> txSeq + i, user_id |-> current_user, type |-> tl[i].type,
                        amount |-> tl[i].amount, category |-> tl[i].category,
                        description |-> tl[i].description, date |-> tl[i].date] :
                          i \in 1..Len(tl)},
                  txSeq |-> txSeq + Len(tl),
                  budgets |->
                      Wiped(budgets) \cup
                      {[id |-> budgetSeq + i, user_id |-> current_user,
                        category |-> bl[i].category, amount |-> bl[i].amount,
                        month |-> now.month, year |-> now.year] : i \in 1..Len(bl)},
                  budgetSeq |-> budgetSeq + Len(bl),
                  leaked |-> 0, locks |-> FALSE]

\* ------------------------------------------------------------------ actions
\* the environment of this run
Env == CHOOSE e \in Environments : e.name = env

Call(op, args, outcome, warned, result) ==
    [op |-> op, args |-> args, outcome |-> outcome, warned |-> warned, result |-> result]

RECURSIVE AddDays(_, _)
AddDays(t, n) == IF n = 0 THEN t ELSE AddDays(NextDay(t), n - 1)

Init ==
    /\ env \in {e.name : e \in Environments}
    /\ users = {}
    /\ userSeq = 0
    /\ transactions = {}
    /\ txSeq = 0
    /\ budgets = {}
    /\ budgetSeq = 0
    /\ current_user = 0
    /\ now = StartDate
    /\ backupDoc = NoFile
    /\ openConns = 0
    /\ writeLocked = FALSE
    /\ last = Call("init", [none |-> TRUE], "Ok", FALSE, [ok |-> TRUE])

\* a day passes between two calls
Tick ==
    /\ \E k \in 0..(Env.maxTicks - 1) : now = AddDays(StartDate, k)
    /\ now' = NextDay(now)
    /\ last' = Call("tick", [none |-> TRUE], "Ok", FALSE, [ok |-> TRUE])
    /\ UNCHANGED <<env, users, userSeq, transactions, txSeq, budgets, budgetSeq, current_user,
                   backupDoc, openConns, writeLocked>>

\* the collector finalises connections left open: each one it reaches is closed
\* and its uncommitted transaction rolled back.  Which of them a collection
\* reaches depends on when it runs and on the generation each has been moved
\* to: any of the open connections may be closed and any may stay, the one
\* holding the write lock (releases) among the ones closed or not.  A connection
\* left open by a restore_data that failed on the lock holds no lock.
CollectGarbage ==
    /\ openConns > 0
    /\ \E closed \in 1..openConns, releases \in BOOLEAN :
          LET holders == IF writeLocked THEN 1 ELSE 0
              freed == IF releases THEN 1 ELSE 0
          IN  /\ releases => writeLocked
              /\ closed - freed \in 0..(openConns - holders)
              /\ openConns' = openConns - closed
              /\ writeLocked' = (writeLocked /\ ~releases)
    /\ last' = Call("gc", [none |-> TRUE], "Ok", FALSE, [ok |-> TRUE])
    /\ UNCHANGED <<env, users, userSeq, transactions, txSeq, budgets, budgetSeq, current_user,
                   now, backupDoc>>

\* the process ends and the program is started again on the same database file:
\* __init__ unsets the current user, CREATE TABLE IF NOT EXISTS keeps the rows,
\* and the connections of the ended process are gone
Restart ==
    /\ Env.restarts
    /\ current_user' = 0
    /\ openConns' = 0
    /\ writeLocked' = FALSE
    /\ last' = Call("init", [none |-> TRUE], "Ok", FALSE, [ok |-> TRUE])
    /\ UNCHANGED <<env, users, userSeq, transactions, txSeq, budgets, budgetSeq, now,
                   backupDoc>>

Register ==
    \E in \in Env.register :
        LET r == register_user(in[1], in[2])
        IN  /\ r.userSeq <= Env.maxUserId
            /\ users' = r.users
            /\ userSeq' = r.userSeq
            /\ last' = Call("register_user", [username |-> in[1], password |-> in[2]], r.outcome, FALSE,
                            [ok |-> r.outcome = "Ok"])
            /\ UNCHANGED <<env, transactions, txSeq, budgets, budgetSeq, current_user, now,
                           backupDoc, openConns, writeLocked>>

Login ==
    \E in \in Env.login :
        LET r == login(in[1], in[2])
        IN  /\ current_user' = r.current_user
            /\ last' = Call("login", [username |-> in[1], password |-> in[2]], r.outcome, FALSE,
                            [ok |-> r.outcome = "Ok"])
            /\ UNCHANGED <<env, users, userSeq, transactions, txSeq, budgets, budgetSeq, now,
                           backupDoc, openConns, writeLocked>>

AddTransaction ==
    \E in \in Env.adds :
        LET r == add_transaction(in[1], in[2], in[3], in[4])
        IN  /\ r.txSeq <= Env.maxTxId
            /\ transactions' = r.transactions
            /\ txSeq' = r.txSeq
            /\ last' = Call("add_transaction",
                            [transaction_type |-> in[1], amount |-> in[2],
                             category |-> in[3], description |-> in[4]],
                            r.outcome, r.warned, [ok |-> r.outcome = "Ok"])
            /\ UNCHANGED <<env, users, userSeq, budgets, budgetSeq, current_user, now,
                           backupDoc, openConns, writeLocked>>

UpdateTransaction ==
    \E id \in 1..Env.maxTxId, args \in Env.updates :
        LET r == update_transaction(id, args)
        IN  /\ transactions' = r.transactions
            /\ last' = Call("update_transaction", [transaction_id |-> id, fields |-> args],
                            r.outcome, FALSE, [ok |-> r.outcome = "Ok"])
            /\ UNCHANGED <<env, users, userSeq, txSeq, budgets, budgetSeq, current_user, now,
                           backupDoc, openConns, writeLocked>>

DeleteTransaction ==
    \E id \in Env.deletes :
        LET r == delete_transaction(id)
        IN  /\ transactions' = r.transactions
            /\ last' = Call("delete_transaction", [transaction_id |-> id], r.outcome, FALSE,
                            [ok |-> r.outcome = "Ok"])
            /\ UNCHANGED <<env, users, userSeq, txSeq, budgets, budgetSeq, current_user, now,
                           backupDoc, openConns, writeLocked>>

GetTransactions ==
    \E args \in Env.queries :
        LET r == get_transactions(args)
        IN  /\ last' = Call("get_transactions", [filters |-> args], r.outcome, FALSE,
                            [list |-> r.result])
            /\ UNCHANGED <<env, users, userSeq, transactions, txSeq, budgets, budgetSeq,
                           current_user, now, backupDoc, openConns, writeLocked>>

GenerateReport ==
    \E period \in Env.periods :
        LET r == generate_report(period)
        IN  /\ last' = Call("generate_report", [period |-> period], r.outcome, FALSE,
                            [report |-> r.result])
            /\ UNCHANGED <<env, users, userSeq, transactions, txSeq, budgets, budgetSeq,
                           current_user, now, backupDoc, openConns, writeLocked>>

SetBudget ==
    \E in \in Env.budgets :
        LET r == set_budget(in[1], in[2])
        IN  /\ r.budgetSeq <= Env.maxBudgetId
            /\ budgets' = r.budgets
            /\ budgetSeq' = r.budgetSeq
            /\ last' = Call("set_budget", [category |-> in[1], amount |-> in[2]], r.outcome, FALSE,
                            [ok |-> r.outcome = "Ok"])
            /\ UNCHANGED <<env, users, userSeq, transactions, txSeq, current_user, now,
                           backupDoc, openConns, writeLocked>>

CheckBudget ==
    \E category \in Env.checks :
        LET r == check_budget(transactions, category)
        IN  /\ last' = Call("check_budget", [category |-> category], "Ok", r.exceeded, [check |-> r])
            /\ UNCHANGED <<env, users, userSeq, transactions, txSeq, budgets, budgetSeq,
                           current_user, now, backupDoc, openConns, writeLocked>>

GetBudgets ==
    LET r == get_budgets
    IN  /\ Env.lists
        /\ last' = Call("get_budgets", [none |-> TRUE], r.outcome, FALSE, [list |-> r.result])
        /\ UNCHANGED <<env, users, userSeq, transactions, txSeq, budgets, budgetSeq,
                       current_user, now, backupDoc, openConns, writeLocked>>

BackupData ==
    LET r == backup_data
    IN  /\ Env.backups
        /\ backupDoc' = r.doc
        /\ last' = Call("backup_data", [backup_file |-> BackupFile], r.outcome, FALSE,
                        [ok |-> r.outcome = "Ok"])
        /\ UNCHANGED <<env, users, userSeq, transactions, txSeq, budgets, budgetSeq,
                       current_user, now, openConns, writeLocked>>

RestoreData ==
    \E file \in Env.files :
        LET r == restore_data(file)
        IN  /\ r.txSeq <= Env.maxTxId
            /\ r.budgetSeq <= Env.maxBudgetId
            /\ openConns + r.leaked <= MaxLeaked
            /\ transactions' = r.transactions
            /\ txSeq' = r.txSeq
            /\ budgets' = r.budgets
            /\ budgetSeq' = r.budgetSeq
            /\ openConns' = openConns + r.leaked
            /\ writeLocked' = (writeLocked \/ r.locks)
            /\ last' = Call("restore_data", [backup_file |-> file], r.outcome, FALSE,
                            [ok |-> r.outcome = "Ok"])
            /\ UNCHANGED <<env, users, userSeq, current_user, now, backupDoc>>

Next ==
    \/ Tick
    \/ CollectGarbage
    \/ Restart
    \/ Register
    \/ Login
    \/ AddTransaction
    \/ UpdateTransaction
    \/ DeleteTransaction
    \/ GetTransactions
    \/ GenerateReport
    \/ SetBudget
    \/ CheckBudget
    \/ GetBudgets
    \/ BackupData
    \/ RestoreData

Spec == Init /\ [][Next]_vars

\* ------------------------------------------------------------------ vocabulary of the claims
\* The statements below speak of calendar days and of rows, not of the texts
\* and queries the code builds.

\* the number written in characters i..j of a text
RECURSIVE DigitsValue(_, _, _)
DigitsValue(text, i, j) ==
    IF j < i THEN 0 ELSE DigitsValue(text, i, j - 1) * 10 + (text[j] - ChZero)

\* the calendar day a 'YYYY-MM-DD HH:MM:SS' timestamp falls on
DayOf(date) ==
    [year |-> DigitsValue(date, 1, 4), month |-> DigitsValue(date, 6, 7),
     day |-> DigitsValue(date, 9, 10)]

\* the day is one of: first day of the current month .. today
InMonthToDate(date) ==
    LET d == DayOf(date)
    IN  d.year = now.year /\ d.month = now.month /\ d.day <= now.day

\* the day is one of: January 1 of the current year .. today
InYearToDate(date) ==
    LET d == DayOf(date)
    IN  /\ d.year = now.year
        /\ (d.month < now.month \/ (d.month = now.month /\ d.day <= now.day))

RECURSIVE SumOfRows(_)
SumOfRows(S) ==
    IF S = {} THEN 0
    ELSE LET r == CHOOSE x \in S : TRUE IN r.amount + SumOfRows(S \ {r})

OwnRows(rows, user) == {r \in rows : r.user_id = user}
ForeignRows(rows, user) == {r \in rows : r.user_id # user}

Range(seq) == {seq[i] : i \in 1..Len(seq)}

\* ------------------------------------------------------------------ C1
\* what the caller has spent on a category in the current month so far
SpentThisMonth(category) ==
    SumOfRows({r \in OwnRows(transactions, current_user) :
                  r.type = "expense" /\ r.category = category /\ InMonthToDate(r.date)})

\* C1: when a logged-in user has a budget B for category c this month and the
\* expenses added in c this month total S, check_budget(c) reports exceeded
\* if and only if S > B.
C1_BudgetCheckReportsOverspending ==
    (last.op = "check_budget" /\ current_user # 0) =>
        \A b \in OwnRows(budgets, current_user) :
            (b.category = last.args.category /\ b.month = now.month /\ b.year = now.year) =>
                (last.result.check.exceeded <=> SpentThisMonth(b.category) > b.amount)

\* ------------------------------------------------------------------ C2
InWindow(period, date) ==
    IF period = "monthly" THEN InMonthToDate(date) ELSE InYearToDate(date)

\* C2: generate_report(monthly | yearly) totals the caller's income and expense
\* rows of the window through today inclusive, savings is their difference, the
\* category sums are the expense sums per category and add up to total_expenses;
\* any other period yields the empty result.
C2_ReportTotalsTheWindow ==
    (last.op = "generate_report" /\ current_user # 0) =>
        LET period == last.args.period
            own == {r \in OwnRows(transactions, current_user) : InWindow(period, r.date)}
            income == {r \in own : r.type = "income"}
            expense == {r \in own : r.type = "expense"}
            rep == last.result.report
        IN  IF period \in {"monthly", "yearly"}
            THEN /\ rep.total_income = SumOfRows(income)
                 /\ rep.total_expenses = SumOfRows(expense)
                 /\ rep.savings = rep.total_income - rep.total_expenses
                 /\ DOMAIN rep.category_expenses = {r.category : r \in expense}
                 /\ \A c \in DOMAIN rep.category_expenses :
                        rep.category_expenses[c] = SumOfRows({r \in expense : r.category = c})
            ELSE rep = [empty |-> TRUE] /\ last.outcome = "InvalidPeriod"

\* ------------------------------------------------------------------ C3
\* C3: a call made while user A is the current user returns only A's rows and
\* leaves every row of every other user as it was, also when A passes the id of
\* another user's transaction or restores a document that names another user.
C3_CrossUserIsolation ==
    [][ /\ ForeignRows(transactions', current_user) = ForeignRows(transactions, current_user)
        /\ ForeignRows(budgets', current_user) = ForeignRows(budgets, current_user)
        /\ (last'.op = "get_transactions") =>
              \A d \in Range(last'.result.list) :
                  \E r \in OwnRows(transactions, current_user) : r.id = d.id
        /\ (last'.op = "get_budgets") =>
              \A d \in Range(last'.result.list) :
                  \E b \in OwnRows(budgets, current_user) :
                      b.category = d.category /\ b.amount = d.amount
        /\ (last'.op = "backup_data" /\ last'.outcome = "Ok") =>
              /\ backupDoc'.user_id = current_user
              /\ \A d \in Range(backupDoc'.transactions) :
                    \E r \in OwnRows(transactions, current_user) : r.id = d.id
        /\ (last'.op = "restore_data" /\ current_user # 0
              /\ "user_id" \in DOMAIN ReadFile(last'.args.backup_file)
              /\ ReadFile(last'.args.backup_file).user_id # current_user) =>
              /\ last'.outcome = "OwnershipMismatch"
              /\ transactions' = transactions
              /\ budgets' = budgets
      ]_vars

\* A, logged in, has just been refused the update or delete of a transaction
\* that exists and belongs to another user.
C3_Witness ==
    /\ last.op \in {"update_transaction", "delete_transaction"}
    /\ last.outcome = "NotFound"
    /\ current_user # 0
    /\ \E r \in transactions : r.id = last.args.transaction_id /\ r.user_id # current_user

\* ------------------------------------------------------------------ C4
\* C4: every stored transaction has amount > 0, a kind in {income, expense}
\* and the id of an existing user as its owner.
C4_LedgerInvariant ==
    \A r \in transactions :
        /\ r.amount > 0
        /\ r.type \in {"income", "expense"}
        /\ \E u \in users : u.id = r.user_id

\* ------------------------------------------------------------------ C5
\* a transaction without its id and owner
Content(r) ==
    [type |-> r.type, amount |-> r.amount, category |-> r.category,
     description |-> r.description, date |-> r.date]

\* how many of the rows have the given content
CountOf(rows, c) == Cardinality({r \in rows : Content(r) = c})

\* the two sets hold the same transactions, each as many times, whatever their ids
SameLedger(rows1, rows2) ==
    \A r \in rows1 \cup rows2 : CountOf(rows1, Content(r)) = CountOf(rows2, Content(r))

\* C5: restore_data applied to the document backup_data has just written (no
\* call in between) succeeds, leaves the caller with an equivalent set of
\* transactions, and with the backed-up (category, amount) budgets stamped with
\* the month and year current at the restore.
C5_BackupRestoreRoundTrip ==
    [][ (/\ last.op = "backup_data" /\ last.outcome = "Ok"
         /\ last'.op = "restore_data" /\ last'.args.backup_file = BackupFile) =>
            /\ last'.outcome = "Ok"
            /\ SameLedger(OwnRows(transactions', current_user),
                          OwnRows(transactions, current_user))
            /\ {<<b.category, b.amount>> : b \in OwnRows(budgets', current_user)}
                  = {<<d.category, d.amount>> : d \in Range(backupDoc.budgets)}
            /\ \A b \in OwnRows(budgets', current_user) :
                  b.month = now.month /\ b.year = now.year
      ]_vars

\* ------------------------------------------------------------------ C6
\* C6: a successful update_transaction changes, on the caller's transaction with
\* that id, exactly the fields supplied and nothing else anywhere; an update with
\* no field fails as NoOpUpdate and one with amount <= 0 as InvalidAmount, both
\* leaving storage as it was.
C6_UpdateFrame ==
    [][ (last'.op = "update_transaction" /\ current_user # 0) =>
          LET id == last'.args.transaction_id
              args == last'.args.fields
              new(f, old) == IF f \in DOMAIN args THEN args[f] ELSE old
          IN  /\ (last'.outcome = "Ok") =>
                    /\ budgets' = budgets
                    /\ \E r \in OwnRows(transactions, current_user) :
                          /\ r.id = id
                          /\ transactions' = (transactions \ {r}) \cup
                                {[id |-> r.id, user_id |-> r.user_id, type |-> r.type,
                                  date |-> r.date,
                                  amount |-> new("amount", r.amount),
                                  category |-> new("category", r.category),
                                  description |-> new("description", r.description)]}
              /\ ("amount" \in DOMAIN args /\ args["amount"] <= 0) =>
                    /\ last'.outcome = "InvalidAmount"
                    /\ transactions' = transactions /\ budgets' = budgets
              /\ (DOMAIN args \cap {"amount", "category", "description"} = {}) =>
                    /\ last'.outcome = "NoOpUpdate"
                    /\ transactions' = transactions /\ budgets' = budgets
      ]_vars

\* an update that supplied no description has succeeded on a transaction whose
\* description is not empty, while another transaction is stored
C6_Witness ==
    /\ last.op = "update_transaction" /\ last.outcome = "Ok"
    /\ "description" \notin DOMAIN last.args.fields
    /\ \E r \in transactions : r.id = last.args.transaction_id /\ r.description = "lunch"
    /\ \E r \in transactions : r.id # last.args.transaction_id

\* ------------------------------------------------------------------ C7
\* C7: delete_transaction(id) for an id that names no transaction of the caller
\* returns the NotFound failure and leaves the ledger as it was; a successful
\* delete removes exactly the row with that id.
C7_DeleteNotFound ==
    [][ (last'.op = "delete_transaction" /\ current_user # 0) =>
          LET id == last'.args.transaction_id
              named == {r \in OwnRows(transactions, current_user) : r.id = id}
          IN  /\ (named = {}) =>
                    last'.outcome = "NotFound" /\ transactions' = transactions
              /\ (last'.outcome = "Ok") =>
                    Cardinality(named) = 1 /\ transactions' = transactions \ named
      ]_vars

\* ------------------------------------------------------------------ C8
\* C8: a successful add_transaction makes the unfiltered get_transactions result
\* grow by exactly one record, which carries the given kind, amount, category and
\* description and the current timestamp, all earlier records still being
\* returned unchanged; an add with a kind outside {income, expense} or an
\* amount <= 0 fails and leaves the result unchanged.
C8_AddThenQuery ==
    [][ (last'.op = "add_transaction" /\ current_user # 0) =>
          LET in == last'.args
              before == SelectTransactions(transactions, current_user, NoArgs)
              after == SelectTransactions(transactions', current_user, NoArgs)
              added == Range(after) \ Range(before)
          IN  /\ (last'.outcome = "Ok") =>
                    /\ Len(after) = Len(before) + 1
                    /\ Range(before) \subseteq Range(after)
                    /\ Cardinality(added) = 1
                    /\ \A d \in added :
                          /\ d.type = in.transaction_type /\ d.amount = in.amount
                          /\ d.category = in.category /\ d.description = in.description
                          /\ d.date = StrftimeYmdHMS(now)
                          /\ \A e \in Range(before) : e.id # d.id
              /\ (in.transaction_type \notin {"income", "expense"} \/ in.amount <= 0) =>
                    /\ last'.outcome \in {"InvalidKind", "InvalidAmount"}
                    /\ after = before
      ]_vars

\* an add has succeeded for a user who already had a transaction
C8_Witness ==
    /\ last.op = "add_transaction" /\ last.outcome = "Ok"
    /\ Cardinality(OwnRows(transactions, current_user)) >= 2

\* ------------------------------------------------------------------ C9
\* C9: an add_transaction of kind income never prints the budget-exceeded warning.
C9_IncomeNeverWarns ==
    (last.op = "add_transaction" /\ last.args.transaction_type = "income") => ~last.warned

\* ------------------------------------------------------------------ C10
\* C10: no operation returns with a connection it opened still open.
C10_ConnectionsClosed == openConns = 0

\* ------------------------------------------------------------------ C11
\* C11: register_user with a username already registered fails as DuplicateUser
\* and leaves the users table as it was; usernames are unique, the users table
\* only grows, a login succeeds only with the password stored by the first
\* registration of that username, and register_user with an empty username or
\* password fails without creating a user.
C11_DuplicateRegistration ==
    /\ [](\A u, v \in users : u.username = v.username => u = v)
    /\ [][ /\ users \subseteq users'
           /\ (last'.op = "register_user") =>
                LET in == last'.args
                IN  /\ (in.password # "" /\ \E u \in users : u.username = in.username) =>
                          last'.outcome = "DuplicateUser" /\ users' = users
                    /\ (in.username = "" \/ in.password = "") =>
                          last'.outcome # "Ok" /\ users' = users
           /\ (last'.op = "login" /\ last'.outcome = "Ok") =>
                \E u \in users : /\ u.username = last'.args.username
                                 /\ u.password = hash_password(last'.args.password)
                                 /\ current_user' = u.id
         ]_vars

\* ------------------------------------------------------------------ C12
\* the budget rows of one (user_id, category, month, year)
BudgetKeyRows(rows, user, category, t) ==
    {b \in rows : b.user_id = user /\ b.category = category
                  /\ b.month = t.month /\ b.year = t.year}

\* C12: there is at most one budget row per (user_id, category, month, year);
\* set_budget(c, a) with a > 0 leaves exactly one row for (current user, c,
\* current month, current year), whose amount is a, and leaves every budget row
\* of another category, month or user as it was; set_budget with a <= 0 fails
\* and changes nothing.
C12_BudgetUpsert ==
    /\ [](\A b, c \in budgets :
              (b.user_id = c.user_id /\ b.category = c.category
               /\ b.month = c.month /\ b.year = c.year) => b = c)
    /\ [][ (last'.op = "set_budget" /\ current_user # 0) =>
              LET in == last'.args
                  old == BudgetKeyRows(budgets, current_user, in.category, now)
                  new == BudgetKeyRows(budgets', current_user, in.category, now)
              IN  /\ (in.amount > 0) =>
                        /\ Cardinality(new) = 1
                        /\ \A b \in new : b.amount = in.amount
                        /\ budgets' \ new = budgets \ old
                  /\ (in.amount <= 0) =>
                        last'.outcome = "InvalidAmount" /\ budgets' = budgets
         ]_vars

\* ------------------------------------------------------------------ C13
\* the operations that demand a logged-in user
GatedOps ==
    {"add_transaction", "update_transaction", "delete_transaction", "get_transactions",
     "generate_report", "set_budget", "get_budgets", "backup_data", "restore_data"}

\* what a call reports when it fails: False, an empty list or an empty report
ReportsFailure(result) ==
    IF "ok" \in DOMAIN result THEN ~result.ok
    ELSE IF "list" \in DOMAIN result THEN result.list = << >>
    ELSE DOMAIN result.report = {"empty"}

\* C13: while no user is logged in, every add, update, delete, query, report,
\* set_budget, get_budgets, backup and restore call fails and leaves the users,
\* transactions and budgets tables as they were; the current user is set only by
\* a login whose username and password digest both match a stored user row; a
\* login that matches no row fails with the same outcome whether the username
\* is unknown or the password is wrong.
C13_AuthenticationGate ==
    [][ /\ (current_user = 0 /\ last'.op \in GatedOps) =>
              /\ last'.outcome = "NotAuthenticated"
              /\ ReportsFailure(last'.result)
              /\ ~last'.warned
              /\ users' = users /\ transactions' = transactions /\ budgets' = budgets
              /\ backupDoc' = backupDoc
              /\ current_user' = 0
        /\ (current_user' # current_user /\ current_user' # 0) =>
              /\ last'.op = "login" /\ last'.outcome = "Ok"
              /\ \E u \in users : /\ u.id = current_user'
                                  /\ u.username = last'.args.username
                                  /\ u.password = hash_password(last'.args.password)
        /\ (last'.op = "login") =>
              LET matching == {u \in users :
                                  /\ u.username = last'.args.username
                                  /\ u.password = hash_password(last'.args.password)}
              IN  IF matching = {}
                  THEN last'.outcome = "InvalidCredentials" /\ current_user' = current_user
                  ELSE last'.outcome = "Ok" /\ current_user' \in {u.id : u \in matching}
      ]_vars

\* a call was refused for want of a login although the database holds a user's
\* transactions and budgets
C13_Witness ==
    /\ current_user = 0
    /\ last.op \in GatedOps /\ last.outcome = "NotAuthenticated"
    /\ transactions # {} /\ budgets # {}

\* ------------------------------------------------------------------ C14
\* C14: a restore_data that fails, for whatever reason, leaves the stored
\* transactions and budgets exactly as they were before the call; the caller's
\* rows are replaced only by a restore that succeeds, and then by the complete
\* set of rows of the document; closing the connection a failed restore left
\* open changes no stored row either.
C14_RestoreAllOrNothing ==
    [][ /\ (last'.op = "restore_data" /\ last'.outcome # "Ok") =>
              transactions' = transactions /\ budgets' = budgets
        /\ (last'.op = "restore_data" /\ last'.outcome = "Ok") =>
              LET doc == ReadFile(last'.args.backup_file)
              IN  /\ ForeignRows(transactions', current_user) = ForeignRows(transactions, current_user)
                  /\ ForeignRows(budgets', current_user) = ForeignRows(budgets, current_user)
                  /\ Cardinality(OwnRows(transactions', current_user)) = Len(doc.transactions)
                  /\ Cardinality(OwnRows(budgets', current_user)) = Len(doc.budgets)
                  /\ \A i \in 1..Len(doc.transactions) :
                        \E r \in OwnRows(transactions', current_user) :
                            /\ r.type = doc.transactions[i].type
                            /\ r.amount = doc.transactions[i].amount
                            /\ r.category = doc.transactions[i].category
                            /\ r.description = doc.transactions[i].description
                            /\ r.date = doc.transactions[i].date
                  /\ \A i \in 1..Len(doc.budgets) :
                        \E b \in OwnRows(budgets', current_user) :
                            /\ b.category = doc.budgets[i].category
                            /\ b.amount = doc.budgets[i].amount
        /\ (last'.op \in {"gc", "init"}) =>
              transactions' = transactions /\ budgets' = budgets
      ]_vars

\* a restore has failed on an INSERT, after its DELETEs, for a user who has
\* transactions and budgets stored
C14_Witness ==
    /\ last.op = "restore_data" /\ last.outcome = "StorageFailure"
    /\ last.args.backup_file \in {"badkind.json", "nofield.json", "dupbudget.json"}
    /\ openConns = 1 /\ writeLocked
    /\ OwnRows(transactions, current_user) # {}
    /\ OwnRows(budgets, current_user) # {}

====
